---- MODULE Spec2Model ----
(***************************************************************************)
(* DialFact -> MCQA conversion (convertdata.py): the persisted URL cache,  *)
(* the evidence enricher, the conversion loop with its two buckets.        *)
(*                                                                         *)
(* One converter process at a time.  A run is: construct the converter     *)
(* (load the cache file), read the two input files, handle the records one *)
(* by one (each factual record: enrich its evidence entries in order, then *)
(* emit the item), save the cache and write the dataset document.  The     *)
(* process may be killed at any point and started again; the cache file    *)
(* and the written document outlive the process.                           *)
(*                                                                         *)
(* Subset sampling (subsetdata.py): a sampler process reads the written    *)
(* document, shuffles its items under the fixed seed, re-splits them into  *)
(* the configured sizes, renumbers them and writes the subset document.    *)
(***************************************************************************)
EXTENDS Integers, Sequences, FiniteSets, TLC

\* ---------------------------------------------------------------- bounds
MaxRecordsMixed == 4      \* records of a run, input family "mixed"
MaxRecordsSplit == 8      \* records of a run, input family "split"
MaxRecordsRerun == 2      \* records of a run, input family "rerun"
MaxRecordsBulk == 101     \* records of a run, input family "bulk"
MaxRuns == 2              \* converter processes started one after another
MaxSampleItems == 3       \* items of an input document, input family "sample"
MaxSize == 2              \* configured calib_size / test_size, family "sample"
MaxSubsetRuns == 2        \* sampler processes started one after another

\* ------------------------------------------------------ program constants
CalibrationLimit == 5     \* len(mcqa_dataset["calibration"]) < 5
SavePeriod == 100         \* processed_count % 100 == 0
Seed == 42                \* random.seed(42)
DefaultCalibSize == 1000  \* calib_size = 1000
DefaultTestSize == 1000   \* test_size = 1000
\* Stand-in for the generator behind random.shuffle: a small linear
\* congruential generator, a deterministic function of its state as the
\* Mersenne Twister is.
LcgModulus == 65537
LcgMultiplier == 75
LcgIncrement == 74

\* ------------------------------------------------------------ the inputs
\* URLs of evidence entries.  "" is the empty URL; UnhashableUrl stands for a
\* URL position holding a JSON array (truthy, not usable as a dict key).
Urls == {"u1", "u2"}
AllUrls == Urls \cup {""}
UnhashableUrl == "<list>"
Hashable(url) == url # UnhashableUrl

\* What one GET plus extraction gives: an exception (network error, bad
\* status, timeout), or the extracted text, possibly empty.
FetchOutcomes ==
    { [raised |-> TRUE,  text |-> ""],
      [raised |-> FALSE, text |-> ""],
      [raised |-> FALSE, text |-> "t1"],
      [raised |-> FALSE, text |-> "t2"] }
NoFetch == [raised |-> FALSE, text |-> "<no request>"]

\* Evidence entries are JSON arrays: <<page_name, url, snippet>>, or shorter.
EvU1 == <<"P1", "u1", "s1">>
EvU2 == <<"P2", "u2", "s2">>
EvNoUrl == <<"P3", "", "s3">>
EvShort == <<"P4", "u2">>
EvBadUrl == <<"P5", UnhashableUrl, "s5">>

\* Source records.  json = "array" is a JSON line that is no object.
NoItem == [json |-> "none"]
RecArray == [json |-> "array"]
RecOther ==
    [json |-> "object", type_label |-> "other", response_label |-> "SUPPORTS",
     has_context |-> TRUE, evidence_list |-> <<EvU1>>]
RecNoType ==
    [json |-> "object", response_label |-> "REFUTES",
     has_context |-> TRUE, evidence_list |-> <<EvU2>>]
RecNoContext ==
    [json |-> "object", type_label |-> "factual", response_label |-> "SUPPORTS",
     has_context |-> FALSE, evidence_list |-> <<EvU1>>]
RecA ==
    [json |-> "object", type_label |-> "factual", response_label |-> "SUPPORTS",
     has_context |-> TRUE, evidence_list |-> <<EvU1, EvNoUrl>>]
RecB ==
    [json |-> "object", type_label |-> "factual", response_label |-> "REFUTES",
     has_context |-> TRUE, evidence_list |-> <<EvShort, EvU2, EvU1>>]
RecC ==
    [json |-> "object", type_label |-> "factual",
     response_label |-> "NOT ENOUGH INFO",
     has_context |-> TRUE, evidence_list |-> <<>>]
RecD ==
    [json |-> "object", type_label |-> "factual",
     response_label |-> "UNVERIFIED",
     has_context |-> TRUE, evidence_list |-> <<>>]
RecBad ==
    [json |-> "object", type_label |-> "factual", response_label |-> "SUPPORTS",
     has_context |-> TRUE, evidence_list |-> <<EvU2, EvBadUrl>>]
RecPlain ==
    [json |-> "object", type_label |-> "factual", response_label |-> "SUPPORTS",
     has_context |-> TRUE, evidence_list |-> <<EvNoUrl>>]

\* The input families.  "mixed": short runs over every record shape.
\* "split": enough records to fill calibration and reach the test bucket.
\* "bulk": enough records to reach the periodic save.  "rerun": several
\* processes one after another over the same cache file.  "sample": the
\* sampler's input is any dataset document, its sizes any small sizes.
RecordsOf(f) ==
    CASE f = "mixed" ->
           {RecArray, RecOther, RecNoType, RecNoContext, RecA, RecB, RecC,
            RecD, RecBad}
      [] f = "split" -> {RecPlain, RecOther, RecNoContext, RecArray}
      [] f = "bulk" -> {RecPlain, RecNoContext, RecArray}
      [] f = "rerun" -> {RecB, RecOther, RecArray}
      [] OTHER -> {RecPlain}
MaxRecordsOf(f) ==
    CASE f = "mixed" -> MaxRecordsMixed
      [] f = "split" -> MaxRecordsSplit
      [] f = "bulk" -> MaxRecordsBulk
      [] f = "rerun" -> MaxRecordsRerun
      [] OTHER -> 1
MaxRunsOf(f) == IF f = "rerun" THEN MaxRuns ELSE 1

VARIABLES
    family,           \* which input family the input files are drawn from
    pc,               \* position of the converter process
    runs,             \* processes started so far
    cache_file,       \* wikipedia_cache.pkl on disk
    output_file,      \* dialfact_mcqa.json on disk
    url_cache,        \* self.url_cache
    i,                \* records taken from all_data so far
    item,             \* the record being handled
    processed_count,
    question_id,
    calibration,      \* mcqa_dataset["calibration"]
    test,             \* mcqa_dataset["test"]
    ev,               \* index into item["evidence_list"] (1-based)
    search_results,
    is_cached,        \* local of create_claim_verification_mcqa
    full_content,     \* local of create_claim_verification_mcqa
    response,         \* what the last enrichment got from the network
    fetch_count,      \* GETs dispatched by this process, per URL
    first_return,     \* what fetch_wikipedia_content first returned, per URL
    failed,           \* URLs whose GET has raised, in any run
    sleeps,           \* time.sleep(1) calls of this process
    saves,            \* save_cache calls of this process
    calib_size,       \* subsetdata.main: configured calib_size
    test_size,        \* subsetdata.main: configured test_size
    subset_file,      \* dialfact_mcqa_subset.json on disk
    subset_runs,      \* sampler processes run so far
    dataset,          \* the document the last sampler process loaded
    all_samples,      \* its all_samples list when it ended
    prev_dataset,     \* the document the sampler process before it loaded
    prev_subset       \* the subset document that process wrote

vars ==
    << family, pc, runs, cache_file, output_file, url_cache, i, item,
       processed_count, question_id, calibration, test, ev, search_results,
       is_cached, full_content, response, fetch_count, first_return, failed,
       sleeps, saves, calib_size, test_size, subset_file, subset_runs,
       dataset, all_samples, prev_dataset, prev_subset >>

disk == << cache_file, output_file >>
memory ==
    << url_cache, i, item, processed_count, question_id, calibration,
       test, ev, search_results, is_cached, full_content >>
observed == << response, fetch_count, first_return, sleeps, saves >>
sampler ==
    << calib_size, test_size, subset_file, subset_runs, dataset, all_samples,
       prev_dataset, prev_subset >>

\* ------------------------------------------------------------- the cache
EmptyMap == [u \in {} |-> ""]
Put(map, url, text) ==
    [u \in (DOMAIN map) \cup {url} |-> IF u = url THEN text ELSE map[u]]

NoFile == [status |-> "missing", map |-> EmptyMap]
CorruptFile == [status |-> "corrupt", map |-> EmptyMap]
NoOutput == [written |-> FALSE]

\* (variant: entries with empty content are dropped at load)
load_cache_DropEmpty(file) ==
    IF file.status = "ok"
    THEN [u \in {x \in DOMAIN file.map : file.map[x] # ""} |-> file.map[u]]
    ELSE EmptyMap
\* load_cache: the pickled map, or {} when the file is missing or unreadable.
load_cache(file) == IF file.status = "ok" THEN file.map ELSE EmptyMap

\* save_cache: open(cache_file, 'wb') then pickle.dump.  how = "ok" writes the
\* whole map; "open_failed" leaves the file as it was; "write_failed" leaves
\* the file truncated by the open.  No outcome raises.
SaveOutcomes == {"ok", "open_failed", "write_failed"}
save_cache(file, map, how) ==
    CASE how = "ok" -> [status |-> "ok", map |-> map]
      [] how = "open_failed" -> file
      [] OTHER -> CorruptFile

\* (variant: save_cache without its try/except)
SaveRaises_Uncaught(how) == how # "ok"
\* Lines 42-43: save_cache catches every Exception of open and pickle.dump.
SaveRaises(how) == FALSE

\* ------------------------------------------------- pure parts of the code
\* (variant: item.get("type_label", "factual"))
TypeLabel_DefaultFactual(rec) ==
    IF "type_label" \in DOMAIN rec THEN rec.type_label ELSE "factual"
\* item.get("type_label"): None when the key is absent.
TypeLabel(rec) ==
    IF "type_label" \in DOMAIN rec THEN rec.type_label ELSE "<None>"

\* (variant: "C" only for the expected third label)
CorrectOption_StrictThird(label) ==
    IF label = "SUPPORTS" THEN "A"
    ELSE IF label = "REFUTES" THEN "B"
    ELSE IF label = "NOT ENOUGH INFO" THEN "C"
    ELSE "A"
\* Lines 105-110: the option letter of a response label.
CorrectOption(label) ==
    IF label = "SUPPORTS" THEN "A"
    ELSE IF label = "REFUTES" THEN "B"
    ELSE "C"

\* fetch_wikipedia_content on a miss: what it returns, and the cache after it.
\* Both the normal path (line 86) and the except path (line 92) write the key.
FetchReturn(outcome) == IF outcome.raised THEN "" ELSE outcome.text
\* (variant: the except path returns "" without writing the key)
CacheAfterFetch_NoPoison(map, url, outcome) ==
    IF outcome.raised THEN map ELSE Put(map, url, outcome.text)
CacheAfterFetch(map, url, outcome) == Put(map, url, FetchReturn(outcome))

\* (variant: a cached empty string counts as a miss)
IsHit_Truthy(map, url) == url \in DOMAIN map /\ map[url] # ""
\* Lines 56 and 121: "url in self.url_cache", presence of the key.
IsHit(map, url) == url \in DOMAIN map

\* (variant: the URL position is used without the truth test)
UrlExists_Always(url) == TRUE
\* Line 119: "if evidence[1]", the URL position is truthy.
UrlExists(url) == url # ""

\* Lines 199-201: the except path leaves question_id as it was (line 187 is
\* after the call that raised).
\* (variant: the id is taken before the call that may raise)
QuestionIdAfterFailure_Consumed(qid) == qid + 1
QuestionIdAfterFailure(qid) == qid

\* Line 125: the rate-limit sleep after a fetch.
ShouldSleep(cached, content) == (~cached) /\ content # ""

\* (variant: no fallback to the snippet)
PageResult_NoFallback(content, snippet) == content
\* Line 132: full content, or the snippet when there is none.
PageResult(content, snippet) == IF content # "" THEN content ELSE snippet

SearchResult(evidence, content) ==
    [page_name |-> evidence[1], page_url |-> evidence[2],
     page_snippet |-> evidence[3],
     page_result |-> PageResult(content, evidence[3]),
     page_last_modified |-> ""]

\* (variant: off by one, <= instead of <)
GoesToCalibration_OffByOne(calib) == Len(calib) <= CalibrationLimit
\* Line 190: the bucket the next converted item goes to.
GoesToCalibration(calib) == Len(calib) < CalibrationLimit

\* (variant: the period is counted from 1)
SaveDue_Shifted(count) == count % SavePeriod = 1
\* Line 196: the periodic save.
SaveDue(count) == count % SavePeriod = 0

McqaItem(rec, id, results) ==
    [id |-> id, correct_answer |-> CorrectOption(rec.response_label),
     search_results |-> results]

\* Lines 204-218: the dataset document.
Document(calib, tst) ==
    [written |-> TRUE,
     calibration_samples |-> Len(calib), test_samples |-> Len(tst),
     total_samples |-> Len(calib) + Len(tst),
     calibration |-> calib, test |-> tst]

\* ------------------------------------------------- subsetdata.py, pure parts
Min(a, b) == IF a < b THEN a ELSE b

\* Python x[a:b] for 0 <= a, 0 <= b: the slice stops at the end of x.
Slice(x, a, b) ==
    LET last == Min(b, Len(x))
    IN IF a >= last THEN <<>> ELSE SubSeq(x, a + 1, last)

\* random.seed, and one draw of the generator.
SeedState(seed) == seed % LcgModulus
RngStep(state) == (LcgMultiplier * state + LcgIncrement) % LcgModulus
Randbelow(k, state) == state % k

\* (variant: the seed is taken from a clock)
RngAtStart_Clock == SeedState(Seed + subset_runs)
\* main line 92: the generator of a sampler process when
\* create_subset_dataset is called.
RngAtStart == SeedState(Seed)

Swap(x, a, b) == [x EXCEPT ![a] = x[b], ![b] = x[a]]

\* random.shuffle(x): for i from len(x)-1 down to 1, j = randbelow(i+1),
\* swap x[i] and x[j].  k is i + 1, the 1-based position.
RECURSIVE ShuffleFrom(_, _, _)
ShuffleFrom(x, k, state) ==
    IF k < 2 THEN x
    ELSE LET drawn == RngStep(state)
         IN ShuffleFrom(Swap(x, k, Randbelow(k, drawn) + 1), k - 1, drawn)
Shuffle(x, state) == ShuffleFrom(x, Len(x), state)

\* Lines 23-27: the sizes after the check against the number of samples.
ClampedCalibSize(c, t, n) == IF n < c + t THEN Min(c, n) ELSE c
\* (variant: the remainder is not taken)
ClampedTestSize_NoRemainder(c, t, n) == IF n < c + t THEN Min(t, n) ELSE t
ClampedTestSize(c, t, n) ==
    IF n < c + t THEN Min(t, n - ClampedCalibSize(c, t, n)) ELSE t

\* Lines 30-31: the two slices of the shuffled list.
NewCalibration(samples, c) == Slice(samples, 0, c)
\* (variant: the test slice starts one item early)
NewTest_Overlap(samples, c, t) ==
    Slice(samples, IF c > 0 THEN c - 1 ELSE 0, c + t)
NewTest(samples, c, t) == Slice(samples, c, c + t)

\* (variant: enumerate without its start argument)
Renumbered_FromZero(x) == [k \in 1..Len(x) |-> [x[k] EXCEPT !.id = k - 1]]
\* Lines 34-35: for i, item in enumerate(new_calibration + new_test, 1).
Renumbered(x) == [k \in 1..Len(x) |-> [x[k] EXCEPT !.id = k]]

\* (variant: the counts of the loaded document are carried over)
SubsetCounts_Carried(loaded, calib, tst) ==
    [calibration_samples |-> loaded.calibration_samples,
     test_samples |-> loaded.test_samples,
     total_samples |-> loaded.total_samples]
\* Lines 42-44: the counts of the new document.
SubsetCounts(loaded, calib, tst) ==
    [calibration_samples |-> Len(calib),
     test_samples |-> Len(tst),
     total_samples |-> Len(calib) + Len(tst)]

\* Lines 38-47: new_dataset; description_sizes are the two sizes the
\* description string names.
SubsetDocument(loaded, calib, tst, c, t) ==
    LET counts == SubsetCounts(loaded, calib, tst)
    IN [written |-> TRUE,
        description_sizes |-> <<c, t>>,
        calibration_samples |-> counts.calibration_samples,
        test_samples |-> counts.test_samples,
        total_samples |-> counts.total_samples,
        calibration |-> calib, test |-> tst]

\* ------------------------------------------- the sampler's inputs
SampleItems ==
    { [id |-> 7, correct_answer |-> "A", search_results |-> <<>>],
      [id |-> 7, correct_answer |-> "B", search_results |-> <<>>] }
StaleCount == 9
SampleDocuments ==
    UNION { UNION { { [written |-> TRUE,
                       calibration_samples |-> IF stale THEN StaleCount ELSE k,
                       test_samples |-> IF stale THEN StaleCount ELSE n - k,
                       total_samples |-> IF stale THEN StaleCount ELSE n,
                       calibration |-> SubSeq(x, 1, k),
                       test |-> SubSeq(x, k + 1, n)]
                      : k \in 0..n, stale \in BOOLEAN }
                    : x \in [1..n -> SampleItems] }
            : n \in 0..MaxSampleItems }
InputDocumentsOf(f) == IF f = "sample" THEN SampleDocuments ELSE {NoOutput}
CalibSizesOf(f) == IF f = "sample" THEN 0..MaxSize ELSE {DefaultCalibSize}
TestSizesOf(f) == IF f = "sample" THEN 0..MaxSize ELSE {DefaultTestSize}
SubsetRunsOf(f) == IF f = "sample" THEN MaxSubsetRuns ELSE 1
\* In the families that explore the converter the sampler is started once,
\* after the last converter process; in "sample" it is started at any time
\* no converter process is running.
SamplerMayStart(f, started) == f = "sample" \/ started = MaxRunsOf(f)

\* ------------------------------------------------------------------ Init
FreshLocals ==
    /\ i' = 0
    /\ item' = NoItem
    /\ processed_count' = 0
    /\ question_id' = 1
    /\ calibration' = <<>>
    /\ test' = <<>>
    /\ ev' = 1
    /\ search_results' = <<>>
    /\ is_cached' = FALSE
    /\ full_content' = ""

FreshObserved ==
    /\ response' = NoFetch
    /\ fetch_count' = [u \in AllUrls |-> 0]
    /\ first_return' = EmptyMap
    /\ sleeps' = 0
    /\ saves' = 0

InitFamily(f) ==
    /\ family = f
    /\ pc = "idle"
    /\ runs = 0
    /\ cache_file = NoFile
    /\ output_file \in InputDocumentsOf(f)
    /\ calib_size \in CalibSizesOf(f)
    /\ test_size \in TestSizesOf(f)
    /\ subset_file = NoOutput
    /\ subset_runs = 0
    /\ dataset = NoOutput
    /\ all_samples = <<>>
    /\ prev_dataset = NoOutput
    /\ prev_subset = NoOutput
    /\ url_cache = EmptyMap
    /\ i = 0
    /\ item = NoItem
    /\ processed_count = 0
    /\ question_id = 1
    /\ calibration = <<>>
    /\ test = <<>>
    /\ ev = 1
    /\ search_results = <<>>
    /\ is_cached = FALSE
    /\ full_content = ""
    /\ response = NoFetch
    /\ fetch_count = [u \in AllUrls |-> 0]
    /\ first_return = EmptyMap
    /\ failed = {}
    /\ sleeps = 0
    /\ saves = 0

Init == InitFamily("mixed")
InitSplit == InitFamily("split")
InitBulk == InitFamily("bulk")
InitRerun == InitFamily("rerun")
InitSample == InitFamily("sample")

\* --------------------------------------------------------------- actions
\* main() line 226, __init__: a new process; url_cache is loaded from disk.
Construct ==
    /\ pc \in {"idle", "done", "aborted", "killed"}
    /\ runs < MaxRunsOf(family)
    /\ runs' = runs + 1
    /\ url_cache' = load_cache(cache_file)
    /\ FreshLocals /\ FreshObserved
    /\ pc' = "constructed"
    /\ UNCHANGED << sampler, family, disk, failed >>

\* convert_to_mcqa lines 151-171, before the loop.  load_dialfact_data
\* raises on a line that is no JSON; nothing catches it.
BeginConvert ==
    /\ pc = "constructed"
    /\ \E parses \in BOOLEAN :
          pc' = IF parses THEN "loop" ELSE "aborted"
    /\ UNCHANGED << sampler, family, runs, disk, url_cache, i, item, processed_count, question_id,
                    calibration, test, ev, search_results, is_cached,
                    full_content, observed, failed >>

\* Lines 174-186 and 97-114: the loop takes the next record.
TakeRecord ==
    /\ pc = "loop"
    /\ i < MaxRecordsOf(family)
    /\ \E rec \in RecordsOf(family) :
          /\ item' = rec
          /\ i' = i + 1
          /\ IF rec.json # "object"
             THEN \* item.get: AttributeError outside the try
                  /\ pc' = "aborted"
                  /\ UNCHANGED << processed_count, ev, search_results >>
             ELSE IF TypeLabel(rec) # "factual"
             THEN \* continue
                  /\ pc' = "loop"
                  /\ UNCHANGED << processed_count, ev, search_results >>
             ELSE /\ processed_count' = processed_count + 1
                  /\ IF rec.has_context
                     THEN /\ pc' = "enrich"
                          /\ ev' = 1
                          /\ search_results' = <<>>
                     ELSE \* item["context"]: KeyError, caught at line 199
                          /\ pc' = "loop"
                          /\ UNCHANGED << ev, search_results >>
          /\ question_id' =
                 IF rec.json = "object" /\ TypeLabel(rec) = "factual"
                    /\ ~rec.has_context
                 THEN QuestionIdAfterFailure(question_id) ELSE question_id
    /\ UNCHANGED << sampler, family, runs, disk, url_cache, calibration, test,
                    is_cached, full_content, observed, failed >>

\* Lines 115-135: one evidence entry of the record being converted.
EnrichEvidence ==
    /\ pc = "enrich"
    /\ ev <= Len(item.evidence_list)
    /\ LET evidence == item.evidence_list[ev]
           url == evidence[2]
       IN IF Len(evidence) < 3
          THEN \* dropped
               /\ ev' = ev + 1
               /\ UNCHANGED << pc, url_cache, question_id, search_results,
                               is_cached, full_content, observed, failed >>
          ELSE IF ~UrlExists(url)
          THEN /\ full_content' = ""
               /\ response' = NoFetch
               /\ search_results' =
                      Append(search_results, SearchResult(evidence, ""))
               /\ ev' = ev + 1
               /\ UNCHANGED << pc, url_cache, question_id, is_cached,
                               fetch_count, first_return, sleeps, saves,
                               failed >>
          ELSE IF ~Hashable(url)
          THEN \* evidence[1] in self.url_cache: TypeError, caught at line 199
               /\ pc' = "loop"
               /\ question_id' = QuestionIdAfterFailure(question_id)
               /\ UNCHANGED << ev, url_cache, search_results, is_cached,
                               full_content, observed, failed >>
          ELSE IF IsHit(url_cache, url)
          THEN \* cache hit
               /\ is_cached' = TRUE
               /\ full_content' = url_cache[url]
               /\ response' = NoFetch
               /\ search_results' =
                      Append(search_results,
                             SearchResult(evidence, url_cache[url]))
               /\ first_return' =
                      IF url \in DOMAIN first_return THEN first_return
                      ELSE Put(first_return, url, url_cache[url])
               /\ sleeps' =
                      IF ShouldSleep(TRUE, url_cache[url])
                      THEN sleeps + 1 ELSE sleeps
               /\ ev' = ev + 1
               /\ UNCHANGED << pc, url_cache, question_id, fetch_count,
                               saves, failed >>
          ELSE \* cache miss: one GET
               \E outcome \in FetchOutcomes :
                  /\ is_cached' = FALSE
                  /\ response' = outcome
                  /\ fetch_count' = [fetch_count EXCEPT ![url] = @ + 1]
                  /\ failed' = IF outcome.raised THEN failed \cup {url}
                               ELSE failed
                  /\ url_cache' = CacheAfterFetch(url_cache, url, outcome)
                  /\ full_content' = FetchReturn(outcome)
                  /\ first_return' =
                         IF url \in DOMAIN first_return THEN first_return
                         ELSE Put(first_return, url, FetchReturn(outcome))
                  /\ sleeps' =
                         IF ShouldSleep(FALSE, FetchReturn(outcome))
                         THEN sleeps + 1 ELSE sleeps
                  /\ search_results' =
                         Append(search_results,
                                SearchResult(evidence, FetchReturn(outcome)))
                  /\ ev' = ev + 1
                  /\ UNCHANGED << pc, question_id, saves >>
    /\ UNCHANGED << sampler, family, runs, disk, i, item, processed_count,
                    calibration, test >>

\* Lines 137-147 and 187-197: the item is built, numbered and put in a bucket.
EmitItem ==
    /\ pc = "enrich"
    /\ ev > Len(item.evidence_list)
    /\ LET claim_mcqa == McqaItem(item, question_id, search_results)
       IN /\ question_id' = question_id + 1
          /\ IF GoesToCalibration(calibration)
             THEN /\ calibration' = Append(calibration, claim_mcqa)
                  /\ UNCHANGED test
             ELSE /\ test' = Append(test, claim_mcqa)
                  /\ UNCHANGED calibration
    /\ IF SaveDue(processed_count)
       THEN /\ \E how \in SaveOutcomes :
                  cache_file' = save_cache(cache_file, url_cache, how)
            /\ saves' = saves + 1
       ELSE UNCHANGED << cache_file, saves >>
    /\ pc' = "loop"
    /\ UNCHANGED << sampler, family, runs, output_file, url_cache, i, item,
                    processed_count, ev, search_results, is_cached,
                    full_content, response, fetch_count, first_return, sleeps,
                    failed >>

\* Lines 203-223: the records are exhausted.
Finish ==
    /\ pc = "loop"
    /\ \E how \in SaveOutcomes :
          /\ cache_file' = save_cache(cache_file, url_cache, how)
          /\ IF SaveRaises(how)
             THEN pc' = "aborted" /\ UNCHANGED output_file
             ELSE pc' = "done" /\ output_file' = Document(calibration, test)
    /\ saves' = saves + 1
    /\ UNCHANGED << sampler, family, runs, memory, response, fetch_count,
                    first_return, sleeps, failed >>

\* The process is killed: its memory is gone, the files stay.
Kill ==
    /\ pc \in {"constructed", "loop", "enrich"}
    /\ pc' = "killed"
    /\ url_cache' = EmptyMap
    /\ FreshLocals /\ FreshObserved
    /\ UNCHANGED << sampler, family, runs, disk, failed >>

\* The process is killed inside save_cache, after open(cache_file, 'wb')
\* (line 39) has truncated the file and before pickle.dump (line 40) has
\* written it out.
KillDuringSave ==
    /\ \/ pc = "loop"
       \/ pc = "enrich" /\ ev > Len(item.evidence_list)
             /\ SaveDue(processed_count)
    /\ cache_file' = CorruptFile
    /\ pc' = "killed"
    /\ url_cache' = EmptyMap
    /\ FreshLocals /\ FreshObserved
    /\ UNCHANGED << sampler, family, runs, output_file, failed >>

\* subsetdata.main and create_subset_dataset: one sampler process, from
\* random.seed(42) to the written subset document.  It runs when no
\* converter process is writing and the input document exists.
SubsetMain ==
    /\ pc \in {"idle", "done", "aborted", "killed"}
    /\ output_file.written
    /\ subset_runs < SubsetRunsOf(family)
    /\ SamplerMayStart(family, runs)
    /\ \E shuffled \in
            {Shuffle(output_file.calibration \o output_file.test, RngAtStart)} :
         LET n == Len(shuffled)
             c == ClampedCalibSize(calib_size, test_size, n)
             t == ClampedTestSize(calib_size, test_size, n)
         IN \E new_calibration \in {NewCalibration(shuffled, c)},
               new_test \in {NewTest(shuffled, c, t)} :
              \E numbered \in {Renumbered(new_calibration \o new_test)} :
                 /\ dataset' = output_file
                 /\ all_samples' =
                       numbered \o Slice(shuffled, Len(numbered), n)
                 /\ subset_file' =
                       SubsetDocument(output_file,
                           Slice(numbered, 0, Len(new_calibration)),
                           Slice(numbered, Len(new_calibration),
                                 Len(numbered)),
                           c, t)
    /\ prev_dataset' = dataset
    /\ prev_subset' = subset_file
    /\ subset_runs' = subset_runs + 1
    /\ UNCHANGED << family, pc, runs, disk, memory, observed, failed,
                    calib_size, test_size >>

Next ==
    \/ Construct
    \/ BeginConvert
    \/ TakeRecord
    \/ EnrichEvidence
    \/ EmitItem
    \/ Finish
    \/ Kill
    \/ KillDuringSave
    \/ SubsetMain

Spec == Init /\ [][Next]_vars
SpecSplit == InitSplit /\ [][Next]_vars
SpecBulk == InitBulk /\ [][Next]_vars
SpecRerun == InitRerun /\ [][Next]_vars
SpecSample == InitSample /\ [][Next]_vars

\* ================================================================ claims
\* The evidence entry the last EnrichEvidence step handled had URL u.
JustEnriched(u) ==
    /\ pc = "enrich"
    /\ ev > 1
    /\ Len(item.evidence_list[ev - 1]) >= 3
    /\ item.evidence_list[ev - 1][2] = u

\* This step is EnrichEvidence on a usable evidence entry with URL u.
EnrichStep(u) ==
    /\ pc = "enrich"
    /\ pc' = "enrich"
    /\ ev' = ev + 1
    /\ Len(item.evidence_list[ev]) >= 3
    /\ item.evidence_list[ev][2] = u

Emitted == calibration \o test

\* C1: cache idempotence.  One process never dispatches more than one GET
\* for a URL, and every call of the enricher on a URL after the first one
\* dispatches nothing and returns what the first call returned, the empty
\* string of a failed or empty first fetch included.
C1_CacheIdempotence ==
    /\ [](\A u \in Urls : fetch_count[u] <= 1)
    /\ [][\A u \in Urls :
            (EnrichStep(u) /\ u \in DOMAIN first_return)
               => /\ fetch_count' = fetch_count
                  /\ full_content' = first_return[u]]_vars

\* C1 witness: a second call on a URL whose first call, in this process,
\* raised: it was served the cached empty string.
C1_Witness ==
    \E u \in Urls :
       /\ JustEnriched(u)
       /\ is_cached
       /\ fetch_count[u] = 1
       /\ u \in failed
       /\ first_return[u] = ""
       /\ full_content = ""

\* C2 as stated: once a GET for a URL has raised, no later step of this or
\* of any later process dispatches a GET for that URL.
C2_NeverRetried ==
    [][\A u \in failed : fetch_count'[u] <= fetch_count[u]]_vars

\* C2 amended: a URL this process has fetched is a key of its cache, whatever
\* the outcome; a URL that is a key of the cache is not fetched; and a new
\* process starts with every key of a readable cache file, empty values
\* included.  (A failure that no successful save carried to the file is
\* fetched again by the next process.)
C2_NeverRetriedWhilePresent ==
    /\ [](\A u \in Urls : fetch_count[u] >= 1 => u \in DOMAIN url_cache)
    /\ [][\A u \in failed :
            u \in DOMAIN url_cache => fetch_count'[u] <= fetch_count[u]]_vars
    /\ [][(pc # "constructed" /\ pc' = "constructed" /\ cache_file.status = "ok")
            => \A u \in DOMAIN cache_file.map :
                  /\ u \in DOMAIN url_cache'
                  /\ url_cache'[u] = cache_file.map[u]]_vars

\* C2 witness: a later process enriched a URL whose fetch had raised in an
\* earlier one, and served it from the loaded cache without a GET.
C2_Witness ==
    \E u \in Urls :
       /\ runs >= 2
       /\ JustEnriched(u)
       /\ is_cached
       /\ u \in failed
       /\ fetch_count[u] = 0
       /\ full_content = ""

\* C3: the items emitted so far, calibration then test, carry the ids
\* 1, 2, ..., k in order, and the next id is k + 1: a skipped or failed
\* record consumes no id.
C3_DenseIds ==
    /\ question_id = Len(Emitted) + 1
    /\ \A k \in 1..Len(Emitted) : Emitted[k].id = k

\* C3 witness: both buckets hold items, after a record that failed and a
\* record that was skipped.
C3_Witness ==
    /\ Len(test) >= 1
    /\ processed_count > Len(Emitted)
    /\ i > processed_count
    /\ pc = "loop"

\* C4: strict prefix split.  With N items converted, calibration holds the
\* first min(5, N) of them and test the rest; test is non-empty only when
\* calibration holds exactly 5, and calibration never exceeds 5.
C4_PrefixSplit ==
    /\ Len(calibration) <= CalibrationLimit
    /\ (Len(test) > 0 => Len(calibration) = CalibrationLimit)
    /\ Len(calibration) =
          (IF question_id - 1 < CalibrationLimit THEN question_id - 1
           ELSE CalibrationLimit)
    /\ \A k \in 1..Len(calibration) : calibration[k].id = k
    /\ \A k \in 1..Len(test) : test[k].id = CalibrationLimit + k

\* C4 witness: calibration is full and the test bucket holds two items.
C4_Witness ==
    /\ Len(calibration) = CalibrationLimit
    /\ Len(test) = 2

\* C5 as stated: handling one source record never ends the run; a record
\* that cannot be converted leaves both buckets as they were and the loop
\* goes on to the next record.
C5_FailureSkipsOnlyItem ==
    [][(pc = "loop" /\ i' = i + 1)
         => /\ pc' \in {"loop", "enrich"}
            /\ UNCHANGED << calibration, test >>]_vars

\* C6 as stated: an enrichment that dispatched a GET sleeps once, whatever
\* the GET gave; an enrichment served from the cache, or of an entry with an
\* empty URL, does not sleep.
C6_DelayAfterEveryMiss ==
    [][\A u \in AllUrls :
         EnrichStep(u)
            => sleeps' =
                  (IF fetch_count' # fetch_count THEN sleeps + 1
                   ELSE sleeps)]_vars

\* C7 as stated: each step that emits an item and brings the number of
\* converted items to a multiple of 100 saves the cache, and the step that
\* ends the run saves the cache and writes the document.
C7_SaveEvery100Converted ==
    [][/\ (pc = "enrich" /\ question_id' = question_id + 1
             /\ question_id % SavePeriod = 0)
            => saves' = saves + 1
       /\ (pc = "loop" /\ pc' = "done")
            => (saves' = saves + 1 /\ output_file'.written)]_vars

\* C7 amended: an item is emitted with processed_count, the number of factual
\* records taken so far (those that failed included), at a multiple of 100
\* exactly when that step saves the cache; a factual record that fails saves
\* nothing; the step that ends the run saves the cache and writes the
\* document.
C7_SaveEvery100Processed ==
    [][/\ (pc = "enrich" /\ question_id' = question_id + 1)
            => ((saves' = saves + 1) <=> (processed_count % SavePeriod = 0))
       /\ (pc \in {"loop", "enrich"} /\ pc' = "loop"
             /\ question_id' = question_id)
            => saves' = saves
       /\ (pc = "loop" /\ pc' = "done")
            => (saves' = saves + 1 /\ output_file'.written)]_vars

\* C7 witness: the periodic save has happened at the 100th factual record,
\* fewer than 100 items having been converted.
C7_Witness ==
    /\ pc = "loop"
    /\ processed_count = SavePeriod
    /\ question_id - 1 < SavePeriod
    /\ saves = 1

\* C8: an enrichment whose GET raised or gave no text goes on to the next
\* evidence entry (nothing propagates), leaves the URL in the cache with the
\* empty string, and gives a search result whose page_result is its
\* page_snippet.
C8_FailedFetchIsEmpty ==
    [][\A u \in Urls :
         (EnrichStep(u) /\ fetch_count'[u] = fetch_count[u] + 1
            /\ (response'.raised \/ response'.text = ""))
           => /\ full_content' = ""
              /\ u \in DOMAIN url_cache'
              /\ url_cache'[u] = ""
              /\ Len(search_results') = Len(search_results) + 1
              /\ LET r == search_results'[Len(search_results')]
                 IN /\ r.page_url = u
                    /\ r.page_result = r.page_snippet
                    /\ r.page_snippet = item.evidence_list[ev][3]]_vars

\* C8 witness: a GET has just raised; the entry is cached empty and the
\* search result carries the snippet.
C8_Witness ==
    \E u \in Urls :
       /\ JustEnriched(u)
       /\ response.raised
       /\ fetch_count[u] = 1
       /\ url_cache[u] = ""
       /\ search_results[Len(search_results)].page_result =
             item.evidence_list[ev - 1][3]

\* C9: an enrichment of an entry with an empty URL dispatches no GET, leaves
\* the cache as it was, does not sleep, and gives a search result whose
\* page_result is the entry's snippet.
C9_EmptyUrlNoFetch ==
    [][EnrichStep("")
         => /\ fetch_count' = fetch_count
            /\ response' = NoFetch
            /\ url_cache' = url_cache
            /\ first_return' = first_return
            /\ sleeps' = sleeps
            /\ Len(search_results') = Len(search_results) + 1
            /\ search_results'[Len(search_results')].page_result =
                  item.evidence_list[ev][3]]_vars

\* C9 witness: an entry with an empty URL has just been enriched, after an
\* entry of the same record was fetched.
C9_Witness ==
    /\ JustEnriched("")
    /\ Len(search_results) = 2
    /\ search_results[2].page_result = "s3"
    /\ fetch_count["u1"] = 1

\* C10: a record whose type label is not "factual", a record without one
\* included, produces nothing: the step that takes it leaves both buckets,
\* the next id, the cache, the GET counts and the sleeps as they were and
\* does not start enriching.
C10_NonFactualSkipped ==
    [][(pc = "loop" /\ i' = i + 1
          /\ ("type_label" \notin DOMAIN item' \/ item'.type_label # "factual"))
         => /\ pc' # "enrich"
            /\ UNCHANGED << calibration, test, question_id, processed_count,
                            url_cache, fetch_count, sleeps >>]_vars

\* C10 witness: a record without a type label has just been skipped, after
\* an item was emitted.
C10_Witness ==
    /\ pc = "loop"
    /\ item = RecNoType
    /\ question_id = 2
    /\ Len(calibration) = 1

\* C15: the item a record is converted to carries "A" when the record's
\* response label is SUPPORTS, "B" when it is REFUTES and "C" for every
\* other label, NOT ENOUGH INFO and unexpected labels alike.
C15_AnswerMapping ==
    [][(pc = "enrich" /\ question_id' = question_id + 1)
         => LET emitted == (calibration' \o test')[question_id]
                label == item.response_label
            IN /\ emitted.id = question_id
               /\ (label = "SUPPORTS" => emitted.correct_answer = "A")
               /\ (label = "REFUTES" => emitted.correct_answer = "B")
               /\ (label \notin {"SUPPORTS", "REFUTES"}
                     => emitted.correct_answer = "C")]_vars

\* C15 witness: items for all three letters are in the bucket, the "C" ones
\* from the expected third label and from an unexpected one.
C15_Witness ==
    /\ Len(calibration) = 4
    /\ calibration[1].correct_answer = "A"
    /\ calibration[2].correct_answer = "B"
    /\ calibration[3].correct_answer = "C"
    /\ calibration[4].correct_answer = "C"
    /\ item = RecD

\* C19: while a process lives, no step removes a key of url_cache or
\* changes the value of a key it holds.
C19_CacheWriteOnce ==
    [][(runs' = runs /\ pc' # "killed")
         => \A u \in DOMAIN url_cache :
               /\ u \in DOMAIN url_cache'
               /\ url_cache'[u] = url_cache[u]]_vars

\* C19 witness: a URL cached with the empty string has been enriched again
\* while another URL was added after it.
C19_Witness ==
    /\ JustEnriched("u2")
    /\ is_cached
    /\ DOMAIN url_cache = {"u1", "u2"}
    /\ url_cache["u2"] = ""
    /\ url_cache["u1"] # ""
    /\ fetch_count["u1"] = 1

\* C20: every search result of an item in a bucket that has a URL has that
\* URL as a key of url_cache, and its page_result is the cached text when
\* that is not empty and its page_snippet when it is.
C20_ResultsMatchCache ==
    \A k \in 1..Len(Emitted) :
       \A n \in 1..Len(Emitted[k].search_results) :
          LET r == Emitted[k].search_results[n]
          IN r.page_url # ""
               => /\ r.page_url \in DOMAIN url_cache
                  /\ r.page_result =
                        (IF url_cache[r.page_url] # ""
                         THEN url_cache[r.page_url] ELSE r.page_snippet)

\* C20 witness: two emitted items share a URL, cached empty; a later item
\* was emitted after the cache grew.
C20_Witness ==
    /\ Len(calibration) >= 2
    /\ Len(calibration[1].search_results) >= 1
    /\ calibration[1].search_results[1].page_url = "u1"
    /\ calibration[1].search_results[1].page_result = "s1"
    /\ Len(calibration[2].search_results) = 2
    /\ calibration[2].search_results[2].page_url = "u1"
    /\ calibration[2].search_results[2].page_result = "s1"
    /\ url_cache["u2"] # ""

\* C16 as stated: what a new process would load from the cache file changes
\* only by a successful save, to url_cache as it is at that save; so a
\* process that ends at any point leaves on disk the map of the last
\* successful save.
C16_StoreIsLastSave ==
    [][load_cache(cache_file') # load_cache(cache_file)
         => /\ cache_file'.status = "ok"
            /\ cache_file'.map = url_cache]_vars

\* C17: a new process whose cache file is missing or unreadable starts with
\* an empty url_cache; a save_cache call that does not write the file leaves
\* url_cache as it was and the run goes on: after an emitted item to the
\* next record, at the end of the run to the written document, with the
\* buckets and the next id as they were.
C17_CacheIoNotFatal ==
    /\ [][runs' = runs + 1
            => /\ pc' = "constructed"
               /\ (cache_file.status # "ok" => url_cache' = EmptyMap)]_vars
    /\ [][(saves' = saves + 1 /\ cache_file'.status # "ok")
            => /\ url_cache' = url_cache
               /\ (pc = "enrich"
                     => pc' = "loop" /\ question_id' = question_id + 1)
               /\ (pc = "loop"
                     => /\ pc' = "done"
                        /\ UNCHANGED << calibration, test, question_id >>
                        /\ output_file'.written
                        /\ output_file'.calibration = calibration
                        /\ output_file'.test = test)]_vars

\* C17 witness: a second process, started without a loadable entry, has
\* fetched, failed to save (the file is left unreadable) and written its
\* document.
C17_Witness ==
    /\ runs = 2
    /\ pc = "done"
    /\ cache_file.status = "corrupt"
    /\ DOMAIN url_cache = {"u2", "u1"}
    /\ fetch_count["u2"] = 1
    /\ fetch_count["u1"] = 1
    /\ output_file.written
    /\ Len(output_file.calibration) = 1

\* ------------------------------------------------------ the sampler's claims
\* The subset document's items, calibration first, and the items of the
\* document the sampler process loaded.
SubsetItems == subset_file.calibration \o subset_file.test
LoadedItems == dataset.calibration \o dataset.test
EraseId(x) == [x EXCEPT !.id = 0]
CountsMatchBuckets(doc) ==
    /\ doc.calibration_samples = Len(doc.calibration)
    /\ doc.test_samples = Len(doc.test)
    /\ doc.total_samples = doc.calibration_samples + doc.test_samples

\* C11: every dataset document the converter or the sampler writes has
\* calibration_samples = length of calibration, test_samples = length of
\* test and total_samples = their sum, whatever counts the loaded document
\* carried.
C11_CountsRecomputed ==
    /\ pc = "done" => CountsMatchBuckets(output_file)
    /\ subset_file.written => CountsMatchBuckets(subset_file)
\* A sampler process loaded a document with stale counts and wrote a
\* non-empty subset; a converter process then wrote its own document.
C11_Witness ==
    /\ pc = "done"
    /\ Len(output_file.calibration) = 1
    /\ subset_file.written
    /\ dataset.total_samples = StaleCount
    /\ Len(subset_file.calibration) = 1
    /\ Len(subset_file.test) = 1

\* C12: in the subset document the ids, read over calibration and then
\* test, are 1, 2, ..., calibration_samples + test_samples in that order,
\* whatever ids the loaded items carried.
C12_SequentialIds ==
    subset_file.written =>
        /\ Len(SubsetItems)
              = subset_file.calibration_samples + subset_file.test_samples
        /\ \A k \in 1..Len(SubsetItems) : SubsetItems[k].id = k
\* A subset with both buckets filled from items that all carried id 7.
C12_Witness ==
    /\ subset_file.written
    /\ Len(subset_file.calibration) = 1
    /\ Len(subset_file.test) = 2
    /\ \A k \in 1..Len(LoadedItems) : LoadedItems[k].id = 7

\* C13: when the loaded document has fewer items than calib_size +
\* test_size, the calibration size becomes min(calib_size, N), the test
\* size N minus that, the subset holds N items, all of them loaded items,
\* and the subset document is written.
C13_Clamping ==
    (subset_file.written /\ Len(LoadedItems) < calib_size + test_size) =>
        LET n == Len(LoadedItems)
            c == IF calib_size < n THEN calib_size ELSE n
        IN /\ subset_file.description_sizes = <<c, n - c>>
           /\ Len(subset_file.calibration) = c
           /\ Len(subset_file.test) = n - c
           /\ subset_file.calibration_samples + subset_file.test_samples = n
           /\ \A k \in 1..Len(SubsetItems) :
                 \E j \in 1..n : EraseId(SubsetItems[k]) = EraseId(LoadedItems[j])
\* Three items for sizes 2 and 2: the test size is cut to the remainder 1.
C13_Witness ==
    /\ subset_file.written
    /\ Len(LoadedItems) = 3
    /\ calib_size = 2
    /\ test_size = 2
    /\ subset_file.description_sizes = <<2, 1>>

C18_SelectsAndRenumbers ==
    subset_file.written =>
        /\ Len(SubsetItems) <= Len(all_samples)
        /\ SubsetItems = SubSeq(all_samples, 1, Len(SubsetItems))
        /\ Len(all_samples) = Len(LoadedItems)
        /\ \E p \in [1..Len(LoadedItems) -> 1..Len(LoadedItems)] :
              /\ \A a, b \in 1..Len(LoadedItems) : p[a] = p[b] => a = b
              /\ \A k \in 1..Len(LoadedItems) :
                    EraseId(all_samples[k]) = EraseId(LoadedItems[p[k]])
\* Three loaded items, not all alike, of which two are taken and one is
\* dropped.
C18_Witness ==
    /\ subset_file.written
    /\ Len(LoadedItems) = 3
    /\ LoadedItems[1].correct_answer # LoadedItems[2].correct_answer
    /\ Len(subset_file.calibration) = 1
    /\ Len(subset_file.test) = 1
    /\ all_samples[3].id = 7

====
